---- MODULE Spec2Model ----
(***************************************************************************)
(* The JSON-RPC ingress of trin: launch_trin (src/src/jsonrpc.rs) binds    *)
(* the IPC socket or the HTTP port, installs the cleanup handlers, accepts *)
(* connections into a thread pool, and every worker parses, validates and  *)
(* answers the requests of its connection, locally or through the proxy.   *)
(* run_trin (src/src/lib.rs) contributes the sub-network channels.         *)
(***************************************************************************)
EXTENDS Integers, Sequences, FiniteSets, TLC

\* ------------------------------------------------------------- bounds
MaxConns == 2      \* connections a run opens
MaxReqs == 2       \* JSON objects the clients send in a run, in total
MaxPool == 2       \* largest configured pool_size

Conns == 1..MaxConns

\* ------------------------------------------------------------- inputs
Versions == {"2.0", "1.0"}
Methods == {"web3_clientVersion", "eth_getBalance", "portal_stateRadius"}
Ids == {1, 2}
ParamVals == {"[\"0xabc\",\"latest\"]"}

\* A JSON object off the wire: a map from field names to values.
PlainObjects == [jsonrpc : Versions, method : Methods, id : Ids]
ParamObjects == [jsonrpc : Versions, method : Methods, id : Ids, params : ParamVals]
\* An object that lacks a field of JsonRequest does not deserialize.
BrokenObjects == [jsonrpc : {"2.0"}, method : {"eth_getBalance"}]
RawObjects == PlainObjects \cup ParamObjects \cup BrokenObjects

\* The objects of the runs with several connections: one answered locally,
\* one proxied, one that does not deserialize.
FewObjects ==
    {[jsonrpc |-> "2.0", method |-> "web3_clientVersion", id |-> 1],
     [jsonrpc |-> "2.0", method |-> "eth_getBalance", id |-> 2,
      params |-> "[\"0xabc\",\"latest\"]"]} \cup BrokenObjects

\* What the upstream provider does with a proxied request.
Upstream == {"200", "503", "send_failed", "body_failed"}

SockPath == "/tmp/trin-jsonrpc.ipc"

\* ------------------------------------------------------------- JsonRequest
JsonRequestFields == {"jsonrpc", "method", "id"}

\* serde: a field the struct lacks is ignored, a missing field is an error.
Deserializes(raw) == JsonRequestFields \subseteq DOMAIN raw

Deserialize(raw) == [f \in JsonRequestFields |-> raw[f]]

\* serde_json::to_string(&obj): the fields of the struct, nothing else.
Serialize(o) == [f \in JsonRequestFields |-> o[f]]

validate_any_version(jsonrpc) == "ok"
\* validate_jsonrpc_version: Err("Unsupported jsonrpc version") unless "2.0".
validate_jsonrpc_version(jsonrpc) ==
    IF jsonrpc # "2.0" THEN "Unsupported jsonrpc version" ELSE "ok"

\* #[derive(Validate)]: the fields with a violation; only jsonrpc has a rule.
ValidateAlsoId(o) ==
    {f \in {"jsonrpc"} : validate_jsonrpc_version(o[f]) # "ok"}
        \cup (IF o.id = 2 THEN {"id"} ELSE {})
Validate(o) == {f \in {"jsonrpc"} : validate_jsonrpc_version(o[f]) # "ok"}

\* ------------------------------------------------------------- handle_request
LocalReplyQuotedId(request_id) ==
    "{\"jsonrpc\":\"2.0\",\"id\":\"" \o ToString(request_id)
        \o "\",\"result\":\"trin 0.0.1-alpha\"}"
\* The "web3_clientVersion" arm: the id unquoted, the version fixed.
LocalReply(request_id) ==
    "{\"jsonrpc\":\"2.0\",\"id\":" \o ToString(request_id)
        \o ",\"result\":\"trin 0.0.1-alpha\"}"

\* The body a provider that answers sends back.
UpstreamBody(request_id) ==
    "{\"jsonrpc\":\"2.0\",\"id\":" \o ToString(request_id) \o ",\"result\":\"0x1\"}"

proxy_to_url_ignores_status(request_id, outcome) ==
    CASE outcome \in {"200", "503"} ->
            [ok |-> TRUE, contents |-> UpstreamBody(request_id)]
      [] outcome = "body_failed" ->
            [ok |-> FALSE,
             contents |-> "Unexpected error when accessing the response body"]
      [] OTHER -> [ok |-> FALSE, contents |-> "Request failure: connect error"]
\* proxy_to_url: Ok(body) on a 2xx status whose body could be read, else Err.
proxy_to_url(request_id, outcome) ==
    CASE outcome = "200" -> [ok |-> TRUE, contents |-> UpstreamBody(request_id)]
      [] outcome = "body_failed" ->
            [ok |-> FALSE,
             contents |-> "Unexpected error when accessing the response body"]
      [] outcome = "503" ->
            [ok |-> FALSE, contents |-> "Responded with status code: 503"]
      [] OTHER -> [ok |-> FALSE, contents |-> "Request failure: connect error"]

\* The proxy arm of handle_request: the body as it is, or the error payload
\* with the id between quotes.
ProxyReply(request_id, outcome) ==
    LET r == proxy_to_url(request_id, outcome)
    IN  IF r.ok THEN r
        ELSE [ok |-> FALSE,
              contents |-> "{\"jsonrpc\":\"2.0\",\"id\":\"" \o ToString(request_id)
                  \o "\",\"error\":\"Infura failure: " \o r.contents \o "\"}"]

IsLocalOrPortal(method) == method # "eth_getBalance"
\* match obj.method.as_str(): only "web3_clientVersion" is answered locally.
IsLocal(method) == method = "web3_clientVersion"

\* handle_request, given what the provider does when it is asked.
HandleRequest(o, outcome) ==
    IF IsLocal(o.method)
    THEN [ok |-> TRUE, contents |-> LocalReply(o.id)]
    ELSE ProxyReply(o.id, outcome)

\* Display of the validation errors: the field and the code of its error.
DisplayErrors(errs) ==
    IF "jsonrpc" \in errs THEN "jsonrpc: Unsupported jsonrpc version" ELSE ""

IpcResponseBare(errs, result) ==
    IF errs = {} THEN result.contents ELSE DisplayErrors(errs)
\* serve_ipc_client: the raw contents, or the text of the validation error.
IpcResponse(errs, result) ==
    IF errs = {} THEN result.contents
    ELSE "Unsupported trin request: " \o DisplayErrors(errs)

process_http_request_always_200(result) ==
    "HTTP/1.1 200 OK\r\nContent-Length: " \o ToString(Len(result.contents))
        \o "\r\n\r\n" \o result.contents
\* process_http_request: 200 or 502 with the length of the body.
process_http_request(result) ==
    IF result.ok
    THEN "HTTP/1.1 200 OK\r\nContent-Length: " \o ToString(Len(result.contents))
            \o "\r\n\r\n" \o result.contents
    ELSE "HTTP/1.1 502 BAD GATEWAY\r\nContent-Length: "
            \o ToString(Len(result.contents)) \o "\r\n\r\n" \o result.contents

\* serve_http_client: 400 with the validation error, else process_http_request.
HttpResponse(errs, result) ==
    IF errs = {} THEN process_http_request(result)
    ELSE "HTTP/1.1 400 BAD REQUEST\r\n\r\n" \o DisplayErrors(errs)

FormatResponse(proto, errs, result) ==
    IF proto = "ipc" THEN IpcResponse(errs, result) ELSE HttpResponse(errs, result)

\* What a worker holds between two requests.
NoResult == [ok |-> FALSE, contents |-> ""]
NoRequest == [jsonrpc |-> "", method |-> "", id |-> 0]

\* ------------------------------------------------------------- state
VARIABLES
    protocol,            \* trin_config.protocol: "ipc" or "http"
    pool_size,           \* trin_config.pool_size
    state_jsonrpc_tx,    \* run_trin: "Some" when the state network was selected
    proc,                \* "running", "exited", "killed" (by the signal), "aborted"
    exit_code,           \* the exit status once the process has ended
    main_pc,             \* where the main thread is in launch_trin
    bound,               \* history: the bind of this run succeeded
    file_exists,         \* whether a file is at the IPC socket path
    IPC_PATH,            \* the string behind the IPC_PATH mutex
    ipc_lock,            \* who holds the IPC_PATH mutex
    ctrlc_set,           \* the Ctrl-C handler is installed
    hook_set,            \* the panic hook is installed
    sig_pc,              \* the Ctrl-C handler thread
    hook_pc,             \* per thread: where it is in the panic hook
    conn_state,          \* per connection: "idle", "queued", "serving", "closed"
    queue,               \* jobs handed to the pool that no worker has taken
    client_open,         \* the client has not shut its sending side
    rx,                  \* objects sent on the connection and not yet parsed
    tx,                  \* number of responses written to the connection
    sent,                \* objects sent by the clients so far
    wpc,                 \* where the worker of the connection is
    obj,                 \* the JsonRequest the worker holds
    errs,                \* what obj.validate() reported
    result,              \* the Result of handle_request
    formatted,           \* formatted_response, the bytes about to be written
    upstream,            \* what the provider did with the proxied request
    ntaken,              \* history: objects deserialized on the connection
    raw,                 \* history: the object obj was deserialized from
    called,              \* history: handle_request was entered for obj
    posted,              \* history: the body posted to the provider for obj
    target_bucket_idx,   \* generate_random_node_id: the bucket asked for (u8)
    local_node_id,       \* generate_random_node_id: the local NodeId, 32 bytes
    node_id,             \* generate_random_node_id: the NodeId returned
    server_task,         \* run_trin: the blocking task of the JSON-RPC server
    live_server_tx,      \* run_trin: "held", "dropped" (the sender of the channel)
    live_server_rx,      \* run_trin: the messages in the channel (capacity 1)
    run_trin_pc,         \* run_trin: where the function is
    shutting_down,       \* router: process-wide shutdown has begun
    listening,           \* router: the frontends accept connections
    rt_inbox,            \* router: the queue of Dispatch Requests
    rt_inflight,         \* router: the requests it awaits a downstream for
    reply                \* router: per worker, its one-shot reply channel

config == <<protocol, pool_size, state_jsonrpc_tx>>
process == <<proc, exit_code, main_pc, bound, file_exists, IPC_PATH, ipc_lock, ctrlc_set,
             hook_set, sig_pc, hook_pc>>
wire == <<client_open, rx, tx, sent>>
locals == <<obj, errs, result, formatted, upstream>>
workers == <<conn_state, queue, wpc, locals>>
history == <<ntaken, raw, called, posted>>
nodeid == <<target_bucket_idx, local_node_id, node_id>>
runtrin == <<server_task, live_server_tx, live_server_rx, run_trin_pc>>
router == <<shutting_down, listening, rt_inbox, rt_inflight, reply>>
\* What launch_trin and its threads never touch.
apart == <<nodeid, runtrin, router>>
vars == <<config, process, wire, workers, history, apart>>

\* The threads that can run the panic hook: the worker of each connection,
\* and (number 0) the thread that runs the Ctrl-C closure.
HookThreads == 0..MaxConns

\* run_trin, lines 75-86: the channel to the state network exists only if
\* the network was selected.
NetworkChoices == {{}, {"state"}}
Channel(networks, name) == IF name \in networks THEN "Some" ELSE "None"

\* No NodeId has been asked for.
NodeIdIdle ==
    /\ target_bucket_idx = 0
    /\ local_node_id = <<>>
    /\ node_id = <<>>

\* run_trin, lines 107-122: the channel is made and the server task spawned.
RunTrinInit ==
    /\ server_task = "spawned"
    /\ live_server_tx = "held"
    /\ live_server_rx = <<>>
    /\ run_trin_pc = "spawn_handler"

RouterInit ==
    /\ shutting_down = FALSE
    /\ listening = TRUE
    /\ rt_inbox = <<>>
    /\ rt_inflight = {}
    /\ reply = [c \in Conns |-> "unconnected"]

LaunchInit ==
    /\ protocol \in {"ipc", "http"}
    /\ pool_size \in 1..MaxPool
    /\ \E networks \in NetworkChoices : state_jsonrpc_tx = Channel(networks, "state")
    /\ proc = "running"
    /\ exit_code = 0
    /\ main_pc = "bind"
    /\ bound = FALSE
    /\ file_exists \in (IF protocol = "ipc" THEN BOOLEAN ELSE {FALSE})
    /\ IPC_PATH = ""
    /\ ipc_lock = "none"
    /\ ctrlc_set = FALSE
    /\ hook_set = FALSE
    /\ sig_pc = "idle"
    /\ hook_pc = [t \in HookThreads |-> "none"]
    /\ conn_state = [c \in Conns |-> "idle"]
    /\ queue = <<>>
    /\ client_open = [c \in Conns |-> TRUE]
    /\ rx = [c \in Conns |-> <<>>]
    /\ tx = [c \in Conns |-> 0]
    /\ sent = 0
    /\ wpc = [c \in Conns |-> "none"]
    /\ obj = [c \in Conns |-> NoRequest]
    /\ errs = [c \in Conns |-> {}]
    /\ result = [c \in Conns |-> NoResult]
    /\ formatted = [c \in Conns |-> ""]
    /\ upstream = [c \in Conns |-> "none"]
    /\ ntaken = [c \in Conns |-> 0]
    /\ raw = [c \in Conns |-> {}]
    /\ called = [c \in Conns |-> FALSE]
    /\ posted = [c \in Conns |-> {}]

Init == LaunchInit /\ NodeIdIdle /\ RunTrinInit /\ RouterInit

Running == proc = "running"

\* The end of the process, with its status: its threads, their locals and
\* its sockets go with it.
ProcessEnds(how, code) ==
    /\ proc' = how
    /\ exit_code' = code
    /\ main_pc' = "gone"
    /\ sig_pc' = "gone"
    /\ hook_pc' = [t \in HookThreads |-> "none"]
    /\ conn_state' = [c \in Conns |-> "closed"]
    /\ queue' = <<>>
    /\ rx' = [c \in Conns |-> <<>>]
    /\ wpc' = [c \in Conns |-> "gone"]
    /\ obj' = [c \in Conns |-> NoRequest]
    /\ errs' = [c \in Conns |-> {}]
    /\ result' = [c \in Conns |-> NoResult]
    /\ formatted' = [c \in Conns |-> ""]
    /\ upstream' = [c \in Conns |-> "none"]
    /\ raw' = [c \in Conns |-> {}]
    /\ called' = [c \in Conns |-> FALSE]
    /\ posted' = [c \in Conns |-> {}]
    /\ client_open' = [c \in Conns |-> FALSE]
    /\ tx' = [c \in Conns |-> 0]
    /\ ntaken' = [c \in Conns |-> 0]
    /\ sent' = 0
    /\ UNCHANGED <<apart, config, bound, file_exists, IPC_PATH, ipc_lock, ctrlc_set, hook_set>>

\* ------------------------------------------------------------- launch_ipc_client
BindIpcHandlersFirst ==
    /\ Running /\ protocol = "ipc" /\ main_pc = "bind"
    /\ \E ok \in (IF file_exists THEN {FALSE} ELSE BOOLEAN) :
          /\ file_exists' = (file_exists \/ ok)
          /\ bound' = ok
    /\ main_pc' = "bound"
    /\ UNCHANGED <<apart, config, proc, exit_code, IPC_PATH, ipc_lock, ctrlc_set,
                   hook_set, sig_pc, hook_pc, wire, workers, history>>
\* UnixListener::bind creates the socket file; it fails when a file is there,
\* and may fail for other reasons. The Err arm panics before any handler is
\* installed: the main thread unwinds and the process ends with status 101.
BindIpc ==
    /\ Running /\ protocol = "ipc" /\ main_pc = "bind"
    /\ \E ok \in (IF file_exists THEN {FALSE} ELSE BOOLEAN) :
          IF ok
          THEN /\ file_exists' = TRUE
               /\ bound' = TRUE
               /\ main_pc' = "bound"
               /\ UNCHANGED <<apart, config, proc, exit_code, IPC_PATH, ipc_lock, ctrlc_set,
                              hook_set, sig_pc, hook_pc, wire, workers, history>>
          ELSE ProcessEnds("exited", 101)

\* set_ipc_cleanup_handlers, lines 43-44: lock IPC_PATH and store the path.
\* The guard lives to the end of the function.
StorePath ==
    /\ Running /\ main_pc = "bound" /\ ipc_lock = "none"
    /\ ipc_lock' = "main"
    /\ IPC_PATH' = SockPath
    /\ main_pc' = "set_ctrlc"
    /\ UNCHANGED <<apart, config, bound, proc, exit_code, file_exists, ctrlc_set, hook_set, sig_pc,
                   hook_pc, wire, workers, history>>

\* lines 46-51: ctrlc::set_handler.
SetCtrlcHandler ==
    /\ Running /\ main_pc = "set_ctrlc"
    /\ ctrlc_set' = TRUE
    /\ main_pc' = "set_hook"
    /\ UNCHANGED <<apart, config, bound, proc, exit_code, file_exists, IPC_PATH, ipc_lock, hook_set,
                   sig_pc, hook_pc, wire, workers, history>>

\* lines 53-60: panic::set_hook, then the guard of IPC_PATH is dropped.
SetPanicHook ==
    /\ Running /\ main_pc = "set_hook"
    /\ hook_set' = TRUE
    /\ ipc_lock' = "none"
    /\ main_pc' = "accepting"
    /\ UNCHANGED <<apart, config, bound, proc, exit_code, file_exists, IPC_PATH, ctrlc_set, sig_pc,
                   hook_pc, wire, workers, history>>

BindHttpIgnoresError ==
    /\ Running /\ protocol = "http" /\ main_pc = "bind"
    /\ \E ok \in BOOLEAN : bound' = ok
    /\ main_pc' = "accepting"
    /\ UNCHANGED <<apart, config, proc, exit_code, file_exists, IPC_PATH, ipc_lock,
                   ctrlc_set, hook_set, sig_pc, hook_pc, wire, workers, history>>
\* launch_http_client: TcpListener::bind(uri).unwrap(); no handler is installed.
BindHttp ==
    /\ Running /\ protocol = "http" /\ main_pc = "bind"
    /\ \E ok \in BOOLEAN :
          IF ok
          THEN /\ main_pc' = "accepting"
               /\ bound' = TRUE
               /\ UNCHANGED <<apart, config, proc, exit_code, file_exists, IPC_PATH, ipc_lock,
                              ctrlc_set, hook_set, sig_pc, hook_pc, wire, workers,
                              history>>
          ELSE ProcessEnds("exited", 101)

\* ------------------------------------------------------------- cleanup handlers
\* fs::remove_file(&ipc_path) succeeds only on a file that is there.
RemoveFileOk(path) == path = SockPath /\ file_exists

\* Delivery of the interrupt signal. Without a handler the default
\* disposition kills the process; with one, the handler thread is woken (a
\* signal that comes while the closure runs waits behind it).
Sigint ==
    /\ Running
    /\ IF ctrlc_set
       THEN /\ sig_pc = "idle"
            /\ sig_pc' = "remove"
            /\ UNCHANGED <<apart, config, bound, proc, exit_code, main_pc, file_exists, IPC_PATH,
                           ipc_lock, ctrlc_set, hook_set, hook_pc, wire, workers,
                           history>>
       ELSE ProcessEnds("killed", 130)

\* The Ctrl-C closure, lines 47-48: read IPC_PATH under the lock, then
\* remove_file(..).unwrap(), which panics in the handler thread on an error.
CtrlcRemove ==
    /\ Running /\ sig_pc = "remove" /\ ipc_lock = "none"
    /\ IF RemoveFileOk(IPC_PATH)
       THEN /\ file_exists' = FALSE
            /\ sig_pc' = "exit"
            /\ UNCHANGED hook_pc
       ELSE /\ sig_pc' = "panicked"
            /\ hook_pc' = [hook_pc EXCEPT ![0] = IF hook_set THEN "remove" ELSE "none"]
            /\ UNCHANGED file_exists
    /\ UNCHANGED <<apart, config, bound, proc, exit_code, main_pc, IPC_PATH, ipc_lock, ctrlc_set,
                   hook_set, wire, workers, history>>

\* line 49: std::process::exit(1).
CtrlcExit ==
    /\ Running /\ sig_pc = "exit"
    /\ ProcessEnds("exited", 1)

\* The panic hook, lines 55-56, in the thread that panicked: a remove_file
\* error unwraps into a panic inside the hook, and a panic while a panic is
\* being processed aborts the process.
HookRemove(t) ==
    /\ Running /\ hook_pc[t] = "remove" /\ ipc_lock = "none"
    /\ IF RemoveFileOk(IPC_PATH)
       THEN /\ file_exists' = FALSE
            /\ hook_pc' = [hook_pc EXCEPT ![t] = "exit"]
            /\ UNCHANGED <<apart, config, bound, proc, exit_code, main_pc, IPC_PATH, ipc_lock,
                           ctrlc_set, hook_set, sig_pc, wire, workers, history>>
       ELSE ProcessEnds("aborted", 134)

\* lines 57-58: original_panic(panic_info); process::exit(1).
HookExit(t) ==
    /\ Running /\ hook_pc[t] = "exit"
    /\ ProcessEnds("exited", 1)

\* ------------------------------------------------------------- accept and pool
Serving == {c \in Conns : conn_state[c] = "serving"}

\* listener.incoming() yields a stream and pool.execute queues its job;
\* connections are numbered in the order they are accepted.
Accept(c) ==
    /\ Running /\ main_pc = "accepting"
    /\ conn_state[c] = "idle"
    /\ \A d \in Conns : d < c => conn_state[d] # "idle"
    /\ conn_state' = [conn_state EXCEPT ![c] = "queued"]
    /\ queue' = Append(queue, c)
    /\ UNCHANGED <<apart, config, process, wire, wpc, locals, history>>

AlwaysFree == TRUE
SingleWorker == Cardinality(Serving) < 1
\* ThreadPool::new(pool_size): at most pool_size jobs run at a time.
WorkerFree == Cardinality(Serving) < pool_size

\* A free worker of the pool takes the oldest job.
PoolTake ==
    /\ Running /\ queue # <<>> /\ WorkerFree
    /\ LET c == Head(queue)
       IN  /\ conn_state' = [conn_state EXCEPT ![c] = "serving"]
           /\ wpc' = [wpc EXCEPT ![c] = IF protocol = "ipc" THEN "read" ELSE "read_to_end"]
    /\ queue' = Tail(queue)
    /\ UNCHANGED <<apart, config, process, wire, locals, history>>

\* ------------------------------------------------------------- clients
Connected(c) == conn_state[c] \in {"queued", "serving"}

ClientSend(c, r) ==
    /\ Running /\ Connected(c) /\ client_open[c]
    /\ sent < MaxReqs
    /\ rx' = [rx EXCEPT ![c] = Append(@, r)]
    /\ sent' = sent + 1
    /\ UNCHANGED <<apart, config, process, client_open, tx, workers, history>>

\* The client shuts its sending side. The server can tell only when a read
\* finds the stream at its end, so the step is taken when a read waits for it.
ClientClose(c) ==
    /\ Running /\ Connected(c) /\ client_open[c]
    /\ \/ wpc[c] = "read_to_end"
       \/ wpc[c] = "read" /\ rx[c] = <<>>
    /\ client_open' = [client_open EXCEPT ![c] = FALSE]
    /\ UNCHANGED <<apart, config, process, rx, tx, sent, workers, history>>

\* ------------------------------------------------------------- workers
\* serve_http_client, lines 125-129: read_to_end returns at end of stream.
HttpReadToEnd(c) ==
    /\ Running /\ conn_state[c] = "serving" /\ wpc[c] = "read_to_end"
    /\ ~client_open[c]
    /\ wpc' = [wpc EXCEPT ![c] = "read"]
    /\ UNCHANGED <<apart, config, process, wire, conn_state, queue, locals, history>>

\* The next item of deser.into_iter::<JsonRequest>() and obj.unwrap(): the
\* stream ended, or an object was parsed, or it was not a JsonRequest. The
\* unwrap panics in the worker: under the hook of set_ipc_cleanup_handlers
\* the thread enters the hook; under the default hook it unwinds, its stream
\* is dropped and the pool replaces the thread.
ReadNext(c) ==
    /\ Running /\ conn_state[c] = "serving" /\ wpc[c] = "read"
    /\ IF rx[c] = <<>>
       THEN /\ ~client_open[c]
            /\ wpc' = [wpc EXCEPT ![c] = "done"]
            /\ conn_state' = [conn_state EXCEPT ![c] = "closed"]
            /\ UNCHANGED <<rx, obj, ntaken, raw, hook_pc>>
       ELSE /\ rx' = [rx EXCEPT ![c] = Tail(@)]
            /\ IF Deserializes(Head(rx[c]))
               THEN /\ obj' = [obj EXCEPT ![c] = Deserialize(Head(rx[c]))]
                    /\ raw' = [raw EXCEPT ![c] = {Head(rx[c])}]
                    /\ ntaken' = [ntaken EXCEPT ![c] = @ + 1]
                    /\ wpc' = [wpc EXCEPT ![c] = "validate"]
                    /\ UNCHANGED <<conn_state, hook_pc>>
               ELSE /\ wpc' = [wpc EXCEPT ![c] = "panicked"]
                    /\ IF hook_set
                       THEN /\ hook_pc' = [hook_pc EXCEPT ![c] = "remove"]
                            /\ UNCHANGED conn_state
                       ELSE /\ conn_state' = [conn_state EXCEPT ![c] = "closed"]
                            /\ UNCHANGED hook_pc
                    /\ UNCHANGED <<obj, ntaken, raw>>
    /\ UNCHANGED <<apart, config, bound, proc, exit_code, main_pc, file_exists, IPC_PATH, ipc_lock,
                   ctrlc_set, hook_set, sig_pc, client_open, tx, sent, queue, errs,
                   result, formatted, upstream, called, posted>>

\* Where the worker goes once validate() has answered.
AfterValidateSkipsInvalid(e, method) ==
    IF e # {} THEN "read" ELSE IF IsLocal(method) THEN "respond" ELSE "proxy"
AfterValidate(e, method) ==
    IF e # {} THEN "respond" ELSE IF IsLocal(method) THEN "respond" ELSE "proxy"

\* match obj.validate(): the Err arm formats the error; the Ok arm enters
\* handle_request, which answers "web3_clientVersion" itself and posts the
\* re-encoded request to the provider for any other method.
ValidateStep(c) ==
    /\ Running /\ conn_state[c] = "serving" /\ wpc[c] = "validate"
    /\ LET e == Validate(obj[c])
       IN  /\ errs' = [errs EXCEPT ![c] = e]
           /\ wpc' = [wpc EXCEPT ![c] = AfterValidate(e, obj[c].method)]
           /\ IF e # {}
              THEN /\ formatted' = [formatted EXCEPT ![c] =
                                       FormatResponse(protocol, e, NoResult)]
                   /\ UNCHANGED <<result, called, posted>>
              ELSE /\ called' = [called EXCEPT ![c] = TRUE]
                   /\ IF IsLocal(obj[c].method)
                      THEN /\ result' = [result EXCEPT ![c] = HandleRequest(obj[c], "none")]
                           /\ formatted' = [formatted EXCEPT ![c] =
                                  FormatResponse(protocol, e, HandleRequest(obj[c], "none"))]
                           /\ UNCHANGED posted
                      ELSE /\ posted' = [posted EXCEPT ![c] = {Serialize(obj[c])}]
                           /\ UNCHANGED <<result, formatted>>
    /\ UNCHANGED <<apart, config, process, wire, conn_state, queue, obj, upstream, ntaken, raw>>

\* The provider answers, or the request fails: proxy_to_url returns and
\* handle_request builds its Result, which the caller formats.
ProxyReturn(c, outcome) ==
    /\ Running /\ conn_state[c] = "serving" /\ wpc[c] = "proxy"
    /\ upstream' = [upstream EXCEPT ![c] = outcome]
    /\ result' = [result EXCEPT ![c] = HandleRequest(obj[c], outcome)]
    /\ formatted' = [formatted EXCEPT ![c] =
                        FormatResponse(protocol, errs[c], HandleRequest(obj[c], outcome))]
    /\ wpc' = [wpc EXCEPT ![c] = "respond"]
    /\ UNCHANGED <<apart, config, process, wire, conn_state, queue, obj, errs, history>>

\* tx.write_all(&formatted_response) (and flush, on HTTP); the iteration
\* ends, its locals are dropped, and the loop asks for the next object.
WriteResponse(c) ==
    /\ Running /\ conn_state[c] = "serving" /\ wpc[c] = "respond"
    /\ tx' = [tx EXCEPT ![c] = @ + 1]
    /\ wpc' = [wpc EXCEPT ![c] = "read"]
    /\ obj' = [obj EXCEPT ![c] = NoRequest]
    /\ errs' = [errs EXCEPT ![c] = {}]
    /\ result' = [result EXCEPT ![c] = NoResult]
    /\ formatted' = [formatted EXCEPT ![c] = ""]
    /\ upstream' = [upstream EXCEPT ![c] = "none"]
    /\ raw' = [raw EXCEPT ![c] = {}]
    /\ called' = [called EXCEPT ![c] = FALSE]
    /\ posted' = [posted EXCEPT ![c] = {}]
    /\ UNCHANGED <<apart, config, process, client_open, rx, sent, conn_state, queue, ntaken>>

\* ------------------------------------------------------------- specification
WorkerStep(c) ==
    \/ HttpReadToEnd(c)
    \/ ReadNext(c)
    \/ ValidateStep(c)
    \/ WriteResponse(c)

Next ==
    \/ BindIpc
    \/ StorePath
    \/ SetCtrlcHandler
    \/ SetPanicHook
    \/ BindHttp
    \/ Sigint
    \/ CtrlcRemove
    \/ CtrlcExit
    \/ PoolTake
    \/ \E t \in HookThreads : HookRemove(t)
    \/ \E t \in HookThreads : HookExit(t)
    \/ \E c \in Conns : Accept(c)
    \/ \E c \in Conns : \E r \in FewObjects : ClientSend(c, r)
    \/ \E c \in Conns : ClientClose(c)
    \/ \E c \in Conns : WorkerStep(c)
    \/ \E c \in Conns : \E outcome \in Upstream : ProxyReturn(c, outcome)

\* Every thread, signal and connection, with the few objects.
Spec == Init /\ [][Next]_vars

\* One connection and no signal, with every object: what the server does
\* with the requests of a connection.
ServeNext ==
    \/ BindIpc
    \/ StorePath
    \/ SetCtrlcHandler
    \/ SetPanicHook
    \/ BindHttp
    \/ PoolTake
    \/ \E t \in HookThreads : HookRemove(t)
    \/ \E t \in HookThreads : HookExit(t)
    \/ Accept(1)
    \/ \E r \in RawObjects : ClientSend(1, r)
    \/ ClientClose(1)
    \/ WorkerStep(1)
    \/ \E outcome \in Upstream : ProxyReturn(1, outcome)

ServeSpec == Init /\ [][ServeNext]_vars

\* Threads are scheduled and a free worker takes a job; the provider answers
\* every connection but the first, whose request may stay with it for ever.
FairSpec ==
    /\ Spec
    /\ WF_vars(PoolTake)
    /\ \A c \in Conns : WF_vars(WorkerStep(c))
    /\ \A c \in Conns \ {1} : WF_vars(\E outcome \in Upstream : ProxyReturn(c, outcome))

\* ------------------------------------------------------------- node_id
NodeIdBytes == 32

\* NodeId::random(): a few local ids, among them the two extremes.
LocalNodeIds ==
    {[i \in 1..NodeIdBytes |-> 0],
     [i \in 1..NodeIdBytes |-> 255],
     [i \in 1..NodeIdBytes |-> (i * 37) % 256]}

\* What the random generator draws: the free bits of the first byte that is
\* not zero, and the bytes after it.
RandomDraws == [low : {0, 85, 127}, fill : {0, 165, 255}]

RECURSIVE Pow2(_)
Pow2(n) == IF n = 0 THEN 1 ELSE 2 * Pow2(n - 1)

RECURSIVE BitXor(_, _, _)
BitXor(a, b, n) ==
    IF n = 0 THEN 0
    ELSE (((a % 2) + (b % 2)) % 2) + 2 * BitXor(a \div 2, b \div 2, n - 1)

\* bytes::random_32byte_array: 32 random bytes after that many zero bits,
\* the bit that follows them being set.
random_32byte_array(leading_bit_zeroes, rnd) ==
    LET first_zero_bytes == leading_bit_zeroes \div 8
        free_bits == 7 - (leading_bit_zeroes % 8)
    IN  [i \in 1..NodeIdBytes |->
            IF i <= first_zero_bytes THEN 0
            ELSE IF i = first_zero_bytes + 1
                 THEN Pow2(free_bits) + (rnd.low % Pow2(free_bits))
                 ELSE rnd.fill]

\* A U256 is kept as its 32 bytes, the least significant first.
U256_from_big_endian(bytes) == [i \in 1..NodeIdBytes |-> bytes[NodeIdBytes + 1 - i]]

\* XorMetric::distance: the U256 of the bytewise XOR of the two arrays.
XorMetric_distance(x, y) ==
    U256_from_big_endian([i \in 1..NodeIdBytes |-> BitXor(x[i], y[i], 8)])

\* u256_to_be_bytes: the bytes of the value, the most significant first.
u256_to_be_bytes(value) == [i \in 1..NodeIdBytes |-> value[NodeIdBytes + 1 - i]]

generate_random_node_id_zeroes_of_idx(idx, local, rnd) ==
    u256_to_be_bytes(XorMetric_distance(local, random_32byte_array(idx, rnd)))
\* generate_random_node_id, with what the random generator draws; the
\* subtraction is one of u8.
generate_random_node_id(idx, local, rnd) ==
    LET distance_leading_zeroes == (255 - idx) % 256
        random_distance == random_32byte_array(distance_leading_zeroes, rnd)
        raw_node_id == XorMetric_distance(local, random_distance)
        raw_node_id_be == u256_to_be_bytes(raw_node_id)
    IN  raw_node_id_be

GenerateRandomNodeId ==
    /\ local_node_id # <<>> /\ node_id = <<>>
    /\ \E rnd \in RandomDraws :
          node_id' = generate_random_node_id(target_bucket_idx, local_node_id, rnd)
    /\ UNCHANGED <<config, process, wire, workers, history, runtrin, router,
                   target_bucket_idx, local_node_id>>

\* Every bucket index of a u8, with each local id.
NodeIdInit ==
    /\ LaunchInit /\ RunTrinInit /\ RouterInit
    /\ protocol = "http" /\ pool_size = 1 /\ state_jsonrpc_tx = "None"
    /\ target_bucket_idx \in 0..255
    /\ local_node_id \in LocalNodeIds
    /\ node_id = <<>>

NodeIdNext == GenerateRandomNodeId

NodeIdSpec == NodeIdInit /\ [][NodeIdNext]_vars

\* ------------------------------------------------------------- run_trin
\* lines 124-160: the handler of the router, the sub-network handlers and
\* the event tasks are spawned; then run_trin waits on live_server_rx.
SpawnHandlers ==
    /\ run_trin_pc = "spawn_handler"
    /\ run_trin_pc' = "recv"
    /\ UNCHANGED <<config, process, wire, workers, history, nodeid, router,
                   server_task, live_server_tx, live_server_rx>>

\* The server in its blocking task (lines 113-121) binds as launch_ipc_client
\* and launch_http_client do. A bind that fails panics before any hook is
\* installed: the thread of the task unwinds, the closure's live_server_tx
\* is dropped with it, and the process goes on.
ServerBind ==
    /\ server_task = "spawned"
    /\ \E ok \in (IF protocol = "ipc" /\ file_exists THEN {FALSE} ELSE BOOLEAN) :
          IF ok
          THEN /\ server_task' = "bound"
               /\ file_exists' = (protocol = "ipc")
               /\ UNCHANGED live_server_tx
          ELSE /\ server_task' = "panicked"
               /\ live_server_tx' = "dropped"
               /\ UNCHANGED file_exists
    /\ UNCHANGED <<config, proc, exit_code, main_pc, bound, IPC_PATH, ipc_lock,
                   ctrlc_set, hook_set, sig_pc, hook_pc, wire, workers, history,
                   nodeid, router, live_server_rx, run_trin_pc>>

\* Bound and serving, the server sends the "server live" notification.
ServerLive ==
    /\ server_task = "bound" /\ live_server_tx = "held"
    /\ server_task' = "live"
    /\ live_server_rx' = Append(live_server_rx, TRUE)
    /\ UNCHANGED <<config, process, wire, workers, history, nodeid, router,
                   live_server_tx, run_trin_pc>>

\* line 162, let _ = live_server_rx.recv().await: recv gives Some(message),
\* or None once every sender is dropped; the value is discarded.
RunTrinRecv ==
    /\ run_trin_pc = "recv"
    /\ \/ /\ live_server_rx # <<>>
          /\ live_server_rx' = Tail(live_server_rx)
       \/ /\ live_server_rx = <<>> /\ live_server_tx = "dropped"
          /\ UNCHANGED live_server_rx
    /\ run_trin_pc' = "close"
    /\ UNCHANGED <<config, process, wire, workers, history, nodeid, router,
                   server_task, live_server_tx>>

\* lines 163-165: live_server_rx.close(); Ok(json_exiter).
RunTrinReturn ==
    /\ run_trin_pc = "close"
    /\ run_trin_pc' = "returned"
    /\ UNCHANGED <<config, process, wire, workers, history, nodeid, router,
                   server_task, live_server_tx, live_server_rx>>

RunTrinNext ==
    \/ SpawnHandlers
    \/ ServerBind
    \/ ServerLive
    \/ RunTrinRecv
    \/ RunTrinReturn

RunTrinSpec == Init /\ [][RunTrinNext]_vars

\* ------------------------------------------------------------- route table
\* The sub-network a method is routed to, by its namespace.
SubnetworkOf(method) == IF method = "portal_stateRadius" THEN "state" ELSE "none"

\* The route is active when the sub-network's channel exists.
ActiveRoute(method) == SubnetworkOf(method) = "state" /\ state_jsonrpc_tx = "Some"

\* ------------------------------------------------------------- router
\* A frontend accepts the connection of worker c while it listens.
RouterAccept(c) ==
    /\ listening /\ reply[c] = "unconnected"
    /\ reply' = [reply EXCEPT ![c] = "none"]
    /\ UNCHANGED <<config, process, wire, workers, history, nodeid, runtrin,
                   shutting_down, listening, rt_inbox, rt_inflight>>

\* The worker submits a Dispatch Request with its reply channel and blocks;
\* a queue that the router has left gives it a closed channel at once.
Dispatch(c, method) ==
    /\ reply[c] = "none"
    /\ IF shutting_down
       THEN /\ reply' = [reply EXCEPT ![c] = "closed"]
            /\ UNCHANGED rt_inbox
       ELSE /\ reply' = [reply EXCEPT ![c] = "waiting"]
            /\ rt_inbox' = Append(rt_inbox, <<c, method>>)
    /\ UNCHANGED <<config, process, wire, workers, history, nodeid, runtrin,
                   shutting_down, listening, rt_inflight>>

\* The router takes the oldest request: "web3_clientVersion" is answered at
\* once, any other is forwarded (sub-network or proxy) and awaited apart.
RouterTake ==
    /\ ~shutting_down /\ rt_inbox # <<>>
    /\ LET c == Head(rt_inbox)[1]
           method == Head(rt_inbox)[2]
       IN  IF IsLocal(method)
           THEN /\ reply' = [reply EXCEPT ![c] = "success"]
                /\ UNCHANGED rt_inflight
           ELSE /\ rt_inflight' = rt_inflight \cup {c}
                /\ UNCHANGED reply
    /\ rt_inbox' = Tail(rt_inbox)
    /\ UNCHANGED <<config, process, wire, workers, history, nodeid, runtrin,
                   shutting_down, listening>>

\* The downstream of an awaited request answers, or fails.
DownstreamReply(c, ok) ==
    /\ c \in rt_inflight
    /\ rt_inflight' = rt_inflight \ {c}
    /\ reply' = [reply EXCEPT ![c] = IF ok THEN "success" ELSE "error"]
    /\ UNCHANGED <<config, process, wire, workers, history, nodeid, runtrin,
                   shutting_down, listening, rt_inbox>>

\* Process-wide shutdown: the listeners stop accepting.
Shutdown ==
    /\ ~shutting_down
    /\ shutting_down' = TRUE
    /\ listening' = FALSE
    /\ UNCHANGED <<config, process, wire, workers, history, nodeid, runtrin,
                   rt_inbox, rt_inflight, reply>>

RouterDrainInboxOnly ==
    /\ shutting_down /\ rt_inbox # <<>>
    /\ reply' = [c \in Conns |->
                    IF \E k \in 1..Len(rt_inbox) : rt_inbox[k][1] = c
                    THEN "shutdown_error" ELSE reply[c]]
    /\ rt_inbox' = <<>>
    /\ UNCHANGED <<config, process, wire, workers, history, nodeid, runtrin,
                   shutting_down, listening, rt_inflight>>
\* Shutting down, the router drains its queue, abandons what it awaits and
\* fails every outstanding request with a terminal error.
RouterDrain ==
    /\ shutting_down /\ (rt_inbox # <<>> \/ rt_inflight # {})
    /\ reply' = [c \in Conns |->
                    IF reply[c] = "waiting" THEN "shutdown_error" ELSE reply[c]]
    /\ rt_inbox' = <<>>
    /\ rt_inflight' = {}
    /\ UNCHANGED <<config, process, wire, workers, history, nodeid, runtrin,
                   shutting_down, listening>>

\* The worker is unblocked: it writes the reply, or takes the closed
\* channel as an error of its connection, and goes on.
WorkerReceives(c) ==
    /\ reply[c] \in {"success", "error", "shutdown_error", "closed"}
    /\ reply' = [reply EXCEPT ![c] = "none"]
    /\ UNCHANGED <<config, process, wire, workers, history, nodeid, runtrin,
                   shutting_down, listening, rt_inbox, rt_inflight>>

RouterNext ==
    \/ RouterTake
    \/ Shutdown
    \/ RouterDrain
    \/ \E c \in Conns : RouterAccept(c)
    \/ \E c \in Conns : \E method \in Methods : Dispatch(c, method)
    \/ \E c \in Conns : \E ok \in BOOLEAN : DownstreamReply(c, ok)
    \/ \E c \in Conns : WorkerReceives(c)

\* The router's task is scheduled while it has something to drain.
RouterSpec == Init /\ [][RouterNext]_vars /\ WF_vars(RouterDrain)

\* ------------------------------------------------------------- properties
\* The worker of c holds a request that validate() has answered.
Validated(c) == raw[c] # {} /\ wpc[c] \in {"proxy", "respond"}

\* C1: a request whose jsonrpc is not "2.0" gets a violation on the jsonrpc
\* field and on no other, and handle_request is not entered for it, nor is
\* anything posted to the provider, on the IPC and on the HTTP frontend.
C1_BadVersionNeverDispatched ==
    \A c \in Conns : \A r \in raw[c] :
        r.jsonrpc # "2.0" =>
            /\ ~called[c]
            /\ posted[c] = {}
            /\ wpc[c] # "proxy"
            /\ Validated(c) => errs[c] = {"jsonrpc"}

C1_Witness ==
    \E c \in Conns : \E r \in raw[c] :
        /\ Validated(c)
        /\ r.jsonrpc = "1.0"
        /\ r.method = "web3_clientVersion"
        /\ errs[c] = {"jsonrpc"}

\* C2: a request whose jsonrpc is "2.0" is valid whatever its method, its id
\* and its other fields, and no field but jsonrpc is ever reported.
C2_VersionTwoIsValid ==
    \A c \in Conns : \A r \in raw[c] :
        Validated(c) =>
            /\ errs[c] \subseteq {"jsonrpc"}
            /\ r.jsonrpc = "2.0" => errs[c] = {} /\ called[c]

C2_Witness ==
    \E c \in Conns : \E r \in raw[c] :
        /\ Validated(c)
        /\ r.jsonrpc = "2.0" /\ r.method = "eth_getBalance" /\ r.id = 2
        /\ "params" \in DOMAIN r
        /\ errs[c] = {}

\* C3: a valid "web3_clientVersion" request is answered with the success
\* payload {"jsonrpc":"2.0","id":<id>,"result":"trin 0.0.1-alpha"}, the id
\* being the one received, and nothing is posted to the provider; on IPC
\* these are the bytes of the response.
C3_ClientVersionAnsweredLocally ==
    \A c \in Conns : \A r \in raw[c] :
        (Validated(c) /\ r.jsonrpc = "2.0" /\ r.method = "web3_clientVersion") =>
            /\ wpc[c] = "respond"
            /\ result[c].ok
            /\ result[c].contents =
                  "{\"jsonrpc\":\"2.0\",\"id\":" \o ToString(r.id)
                      \o ",\"result\":\"trin 0.0.1-alpha\"}"
            /\ r.id = 1 =>
                  result[c].contents =
                      "{\"jsonrpc\":\"2.0\",\"id\":1,\"result\":\"trin 0.0.1-alpha\"}"
            /\ protocol = "ipc" => formatted[c] = result[c].contents
            /\ posted[c] = {}
            /\ upstream[c] = "none"

C3_Witness ==
    \E c \in Conns : \E r \in raw[c] :
        /\ Validated(c)
        /\ protocol = "ipc"
        /\ r.jsonrpc = "2.0" /\ r.method = "web3_clientVersion" /\ r.id = 2
        /\ formatted[c] = "{\"jsonrpc\":\"2.0\",\"id\":2,\"result\":\"trin 0.0.1-alpha\"}"

\* C4: a valid request for another method whose namespace has no active
\* route is posted to the provider, and its reply is an error only when the
\* provider failed.
C4_NoRouteFallsThroughToProxy ==
    \A c \in Conns : \A r \in raw[c] :
        (/\ Validated(c)
         /\ r.jsonrpc = "2.0"
         /\ r.method # "web3_clientVersion"
         /\ ~ActiveRoute(r.method)) =>
            /\ called[c]
            /\ posted[c] # {}
            /\ wpc[c] = "respond" =>
                  /\ upstream[c] \in Upstream
                  /\ result[c].ok <=> upstream[c] = "200"

C4_Witness ==
    \E c \in Conns : \E r \in raw[c] :
        /\ Validated(c)
        /\ r.jsonrpc = "2.0" /\ r.method = "portal_stateRadius"
        /\ state_jsonrpc_tx = "None"
        /\ posted[c] # {}
        /\ wpc[c] = "respond" /\ result[c].ok

\* C5: every field of the object received is in the body posted to the
\* provider, with its value.
C5_ForwardedBodyKeepsEveryField ==
    \A c \in Conns : \A r \in raw[c] : \A b \in posted[c] :
        \A f \in DOMAIN r : f \in DOMAIN b /\ b[f] = r[f]

\* C6: on a connection every request taken gets one response, written
\* before the next request is taken: the responses trail the requests by
\* one while a request is being handled and by none when the next is read.
C6_OneReplyBeforeNextRead ==
    \A c \in Conns :
        /\ tx[c] <= ntaken[c]
        /\ ntaken[c] <= tx[c] + 1
        /\ wpc[c] \in {"validate", "proxy", "respond"} =>
              /\ ntaken[c] = tx[c] + 1
              /\ raw[c] # {}
        /\ wpc[c] \in {"read", "done", "panicked"} =>
              /\ ntaken[c] = tx[c]
              /\ raw[c] = {}
        /\ wpc[c] = "respond" => formatted[c] # ""

C6_Witness ==
    \E c \in Conns :
        /\ protocol = "ipc"
        /\ ntaken[c] = 2 /\ tx[c] = 1
        /\ wpc[c] = "respond"

\* C7: with a pool at least as large as the number of connections, while the
\* request of the first connection stays with the provider, every other
\* connection gets a worker, and every request it has taken is answered
\* (unless the process ends).
C7_StalledConnectionDelaysNoOther ==
    pool_size >= MaxConns =>
        \A c \in Conns \ {1} :
            /\ (conn_state[c] = "queued") ~> (conn_state[c] # "queued")
            /\ (wpc[c] \in {"validate", "proxy", "respond"})
                  ~> (wpc[c] = "read" \/ ~Running)

C7_Witness ==
    /\ pool_size >= MaxConns
    /\ wpc[1] = "proxy"
    /\ \E c \in Conns \ {1} : wpc[c] = "read" /\ tx[c] = 1

\* C8: once the IPC socket is bound, a process that has ended has ended with
\* a status other than 0 and has left no file at the socket path.
C8_SocketGoneAtExit ==
    (protocol = "ipc" /\ bound /\ ~Running) => (exit_code # 0 /\ ~file_exists)

\* C9: a remove_file that fails in the Ctrl-C closure or in the panic hook
\* raises no second fault: the closure does not panic and the process is
\* not aborted.
C9_FailedDeleteIsHarmless == sig_pc # "panicked" /\ proc # "aborted"

\* C10: while the process runs, the socket file it has bound is covered by
\* both cleanup handlers.
C10_RegistrationAtomicWithBind ==
    (Running /\ protocol = "ipc" /\ bound /\ file_exists) => (ctrlc_set /\ hook_set)

\* C11: once a worker has panicked on an object that is not a JsonRequest,
\* the process keeps running and the main thread keeps accepting, on the IPC
\* and on the HTTP frontend.
C11_MalformedRequestEndsOnlyItsConnection ==
    [][(\E c \in Conns : wpc[c] = "panicked")
          => (proc' = "running" /\ main_pc' = "accepting")]_vars

\* C12: on IPC the response to a request that fails validation is the text
\* "Unsupported trin request: " followed by the validation error, and writing
\* it leaves the connection open, the worker back at its read and the
\* requests that wait on the connection in place.
C12_InvalidAnsweredInlineOnIpc ==
    [][\A c \in Conns :
          (protocol = "ipc" /\ wpc[c] = "respond" /\ errs[c] # {}) =>
              /\ formatted[c] = "Unsupported trin request: " \o DisplayErrors(errs[c])
              /\ ~called[c]
              /\ conn_state'[c] = "serving"
              /\ wpc'[c] \in {"respond", "read"}
              /\ wpc'[c] = "read" => (tx'[c] = tx[c] + 1 /\ rx'[c] = rx[c])]_vars

C12_Witness ==
    \E c \in Conns :
        /\ protocol = "ipc"
        /\ wpc[c] = "respond" /\ errs[c] = {"jsonrpc"}
        /\ formatted[c] = "Unsupported trin request: jsonrpc: Unsupported jsonrpc version"
        /\ rx[c] # <<>>
        /\ Head(rx[c]).jsonrpc = "2.0"

\* C13: on HTTP the status of the response follows the outcome of the
\* request: 400 when validation fails, 200 with the Content-Length of the
\* body when handle_request succeeds (an answer made locally, or a 2xx from
\* the provider), 502 with the Content-Length of the body when it fails.
C13_HttpStatusFollowsOutcome ==
    \A c \in Conns : \A r \in raw[c] :
        (protocol = "http" /\ wpc[c] = "respond") =>
            /\ r.jsonrpc # "2.0" =>
                  formatted[c] = "HTTP/1.1 400 BAD REQUEST\r\n\r\n" \o DisplayErrors(errs[c])
            /\ (r.jsonrpc = "2.0" /\ (r.method = "web3_clientVersion" \/ upstream[c] = "200")) =>
                  /\ result[c].ok
                  /\ formatted[c] =
                        "HTTP/1.1 200 OK\r\nContent-Length: "
                            \o ToString(Len(result[c].contents))
                            \o "\r\n\r\n" \o result[c].contents
            /\ (r.jsonrpc = "2.0" /\ r.method # "web3_clientVersion" /\ upstream[c] # "200") =>
                  /\ ~result[c].ok
                  /\ formatted[c] =
                        "HTTP/1.1 502 BAD GATEWAY\r\nContent-Length: "
                            \o ToString(Len(result[c].contents))
                            \o "\r\n\r\n" \o result[c].contents
            /\ (r.jsonrpc = "2.0" /\ r.method = "web3_clientVersion" /\ r.id = 1) =>
                  formatted[c] =
                      "HTTP/1.1 200 OK\r\nContent-Length: 52\r\n\r\n"
                          \o "{\"jsonrpc\":\"2.0\",\"id\":1,\"result\":\"trin 0.0.1-alpha\"}"

C13_Witness ==
    \E c \in Conns : \E r \in raw[c] :
        /\ protocol = "http" /\ wpc[c] = "respond"
        /\ r.method = "eth_getBalance" /\ r.id = 2 /\ upstream[c] = "503"
        /\ formatted[c] =
              "HTTP/1.1 502 BAD GATEWAY\r\nContent-Length: 84\r\n\r\n"
                  \o "{\"jsonrpc\":\"2.0\",\"id\":\"2\",\"error\":"
                  \o "\"Infura failure: Responded with status code: 503\"}"

C16_BindFailureIsFatal ==
    ~bound =>
        /\ main_pc \in {"bind", "gone"}
        /\ main_pc = "gone" => (~Running /\ exit_code # 0)
        /\ queue = <<>>
        /\ \A c \in Conns :
              /\ conn_state[c] \in {"idle", "closed"}
              /\ wpc[c] \in {"none", "gone"}
              /\ tx[c] = 0 /\ ntaken[c] = 0

C16_Witness ==
    /\ protocol = "http"
    /\ ~bound /\ proc = "exited" /\ exit_code = 101
    /\ main_pc = "gone"

\* C19: the connections being served are never more than pool_size; a
\* queued connection starts to be served only from a state where fewer than
\* pool_size are served; and accepting a connection needs no free worker.
C19_ServedWithinPoolSize ==
    [][/\ Cardinality(Serving) <= pool_size
       /\ Cardinality({c \in Conns : conn_state'[c] = "serving"}) <= pool_size
       /\ \A c \in Conns :
             (conn_state[c] = "queued" /\ conn_state'[c] = "serving") =>
                 Cardinality(Serving) < pool_size
       /\ \A c \in Conns :
             (conn_state[c] = "idle" /\ conn_state'[c] = "queued") =>
                 (queue' = Append(queue, c) /\ wpc'[c] = "none")]_vars

C19_Witness ==
    /\ MaxConns > 1
    /\ pool_size = 1
    /\ Cardinality(Serving) = pool_size
    /\ \E c \in Conns : conn_state[c] = "queued" /\ queue = <<c>>

\* C20: while the IPC bind of the process has not succeeded, no cleanup
\* handler is installed and the registered path is empty; and a file at the
\* socket path is deleted only by a process that has bound it.
C20_OnlyTheBinderDeletes ==
    [][/\ (protocol = "ipc" /\ ~bound) => (~ctrlc_set /\ ~hook_set /\ IPC_PATH = "")
       /\ (protocol' = "ipc" /\ ~bound') => (~ctrlc_set' /\ ~hook_set' /\ IPC_PATH' = "")
       /\ (file_exists /\ ~file_exists') => bound]_vars

C20_Witness ==
    /\ protocol = "ipc"
    /\ ~bound /\ proc = "exited" /\ exit_code = 101
    /\ file_exists
    /\ IPC_PATH = "" /\ ~ctrlc_set /\ ~hook_set

\* The zero bits before the first set bit of an array of bytes.
RECURSIVE LeadingZeroBits(_, _)
LeadingZeroBits(bytes, i) ==
    IF i > Len(bytes) THEN 0
    ELSE IF bytes[i] = 0 THEN 8 + LeadingZeroBits(bytes, i + 1)
    ELSE CHOOSE k \in 0..7 : Pow2(7 - k) <= bytes[i] /\ bytes[i] < Pow2(8 - k)

\* The XOR distance of the NodeId returned to the local one, as bytes.
DistanceToLocal == [i \in 1..NodeIdBytes |-> BitXor(node_id[i], local_node_id[i], 8)]

\* C17: for every bucket index of a u8 and every local id, the NodeId
\* returned is 32 bytes whose XOR distance to the local id has 255 - idx zero
\* bits before its first set bit (the distance is in [2^idx, 2^(idx+1))),
\* and 255 - idx is not negative; the three cases of the tests are among them.
C17_DistanceFallsInTargetBucket ==
    node_id # <<>> =>
        /\ Len(node_id) = NodeIdBytes
        /\ \A i \in 1..NodeIdBytes : node_id[i] \in 0..255
        /\ 255 - target_bucket_idx >= 0
        /\ LeadingZeroBits(DistanceToLocal, 1) = 255 - target_bucket_idx
        /\ target_bucket_idx = 5 =>
              /\ \A i \in 1..31 : DistanceToLocal[i] = 0
              /\ DistanceToLocal[32] < 64 /\ DistanceToLocal[32] >= 32
        /\ target_bucket_idx = 0 =>
              /\ \A i \in 1..31 : DistanceToLocal[i] = 0
              /\ DistanceToLocal[32] = 1
        /\ target_bucket_idx = 255 => DistanceToLocal[1] > 127

C17_Witness ==
    /\ node_id # <<>>
    /\ target_bucket_idx = 5
    /\ local_node_id[1] = 37
    /\ node_id # local_node_id
    /\ DistanceToLocal[32] = 53

\* C18: run_trin has returned its exiter only if the server task became
\* live: it has sent the "server live" notification, bound and serving.
C18_ReturnsOnlyOnceLive ==
    run_trin_pc = "returned" => server_task = "live"

====
